---- MODULE Spec2Model ----
(***************************************************************************)
(* Model of src/src/u12.rs: the 12-bit unsigned integer U12, stored in a   *)
(* u16.  The state is one live U12 (`acc`, the tuple field `.0`), the      *)
(* record of the last call made on it (`last`), the number of calls made   *)
(* so far (`steps`) and whether the program has panicked (`status`).       *)
(* Every method of the source is one action; the methods themselves are    *)
(* operators on the stored u16, computed as the code computes them.        *)
(***************************************************************************)
EXTENDS Integers, FiniteSets, Sequences, TLC

VARIABLES acc, last, steps, status

vars == <<acc, last, steps, status>>

(* ---------------------------- bounds ----------------------------------- *)

\* Longest sequence of calls explored after construction.
MaxSteps == 3

\* Operands are drawn from 0..MaxSmall and (4095 - MaxSmall)..4095.
MaxSmall == 5

(* ------------------------ native u16 / u32 ----------------------------- *)

U16Bits == 16

U16Mod == 2 ^ U16Bits

Bit(x, i) == (x \div (2 ^ i)) % 2

\* u16 `&`
RECURSIVE u16_and_from(_, _, _)
u16_and_from(x, m, i) ==
  IF i = U16Bits THEN 0
  ELSE Bit(x, i) * Bit(m, i) * (2 ^ i) + u16_and_from(x, m, i + 1)

u16_and(x, m) == u16_and_from(x, m, 0)

\* u16 `+`: the wrapped sum and whether the exact sum left the 16 bits
\* (a panic in a build with overflow checks, the wrapped value otherwise).
u16_add(x, y) == [v |-> (x + y) % U16Mod, overflow |-> x + y >= U16Mod]

u16_checked_sub(x, y) ==
  IF x >= y THEN [kind |-> "Some", v |-> x - y] ELSE [kind |-> "None", v |-> 0]

u16_saturating_sub(x, y) == IF x >= y THEN x - y ELSE 0

u16_wrapping_sub(x, y) == (x - y + U16Mod) % U16Mod

u16_count_ones(x) == Cardinality({i \in 0..(U16Bits - 1) : Bit(x, i) = 1})

u16_count_zeros(x) == Cardinality({i \in 0..(U16Bits - 1) : Bit(x, i) = 0})

u16_leading_zeros(x) ==
  IF x = 0 THEN U16Bits
  ELSE LET top == CHOOSE i \in 0..(U16Bits - 1) :
                    /\ Bit(x, i) = 1
                    /\ \A j \in (i + 1)..(U16Bits - 1) : Bit(x, j) = 0
       IN  U16Bits - 1 - top

u16_trailing_zeros(x) ==
  IF x = 0 THEN U16Bits
  ELSE CHOOSE i \in 0..(U16Bits - 1) :
         /\ Bit(x, i) = 1
         /\ \A j \in 0..(i - 1) : Bit(x, j) = 0

\* u32 `-`: the difference, or an underflow (a panic in a build with
\* overflow checks, a value near 2^32 otherwise).
u32_sub(x, y) ==
  IF x >= y THEN [kind |-> "Count", v |-> x - y]
  ELSE [kind |-> "Underflow", v |-> 0]

(* ------------------------------ U12 ------------------------------------ *)

MAX == 4095

MIN == 0

Some(n) == [kind |-> "Some", v |-> n]

None == [kind |-> "None", v |-> 0]

Value(n) == [kind |-> "Value", v |-> n]

Panic == [kind |-> "Panic", v |-> 0]

min_value == MIN

max_value == MAX

default == min_value

count_ones(self) == [kind |-> "Count", v |-> u16_count_ones(self)]

count_zeros_nosub(self) == [kind |-> "Count", v |-> u16_count_zeros(self)]

count_zeros(self) == u32_sub(u16_count_zeros(self), 4)

leading_zeros(self) == u32_sub(u16_leading_zeros(self), 4)

trailing_zeros(self) == [kind |-> "Count", v |-> u16_trailing_zeros(self)]

checked_add_offbyone(self, other) ==
  LET result == u16_add(self, other).v
  IN  IF result \in 0..4096 THEN Some(result) ELSE None

checked_add(self, other) ==
  LET result == u16_add(self, other).v
  IN  IF result \in 0..4095 THEN Some(result) ELSE None

saturating_add_wraps(self, other) ==
  LET result == u16_add(self, other).v
  IN  IF result \in 0..4095 THEN result ELSE result - 4096

saturating_add(self, other) ==
  LET result == u16_add(self, other).v
  IN  IF result \in 0..4095 THEN result ELSE max_value

wrapping_add_nomask(self, other) == u16_add(self, other).v

wrapping_add_mask11(self, other) == u16_and(u16_add(self, other).v, 2047)

wrapping_add(self, other) == u16_and(u16_add(self, other).v, 4095)

checked_sub_wraps(self, other) == Some(u16_wrapping_sub(self, other))

checked_sub(self, other) ==
  LET r == u16_checked_sub(self, other)
  IN  IF r.kind = "Some" THEN Some(r.v) ELSE None

saturating_sub(self, other) == u16_saturating_sub(self, other)

wrapping_sub_nomask(self, other) == u16_wrapping_sub(self, other)

wrapping_sub(self, other) == u16_and(u16_wrapping_sub(self, other), 4095)

from_u8(small) == small

from_u12(small) == small

failable_into_truncating(self) ==
  IF self % U16Mod > 4095 THEN None ELSE Some(self % U16Mod)

failable_into(self) ==
  IF self > 4095 THEN None ELSE Some(self % U16Mod)

unchecked_into(self) ==
  LET r == failable_into(self)
  IN  IF r.kind = "Some" THEN Value(r.v) ELSE Panic

add_wraps(self, other) == Value(wrapping_add(self, other))

add(self, other) ==
  LET r == checked_add(self, other)
  IN  IF r.kind = "Some" THEN Value(r.v) ELSE Panic

sub_saturates(self, other) == Value(saturating_sub(self, other))

sub(self, other) ==
  LET r == checked_sub(self, other)
  IN  IF r.kind = "Some" THEN Value(r.v) ELSE Panic

(* ----------------------------- inputs ---------------------------------- *)

U8Max == 255

U8Inputs == (0..MaxSmall) \cup {U8Max}

WideTypes == {"u16", "u32", "u64", "usize"}

\* Every wide type holds the values below 2^16; the others also hold more.
InType(ty, v) == (ty = "u16") => (v < U16Mod)

WideSamples ==
  (0..1) \cup ((MAX - MaxSmall)..(MAX + 1))
         \cup {U16Mod - 1, U16Mod, U16Mod + MaxSmall, U16Mod + MAX + 1}

WideInputs(ty) == {v \in WideSamples : InType(ty, v)}

\* The four operand combinations of the operator impls: value/reference.
Forms == {"val_val", "ref_val", "val_ref", "ref_ref"}

\* The other operand of a binary operation is a U12 built by a constructor.
Operands ==
  {min_value, max_value}
    \cup {from_u8(v) : v \in 0..MaxSmall}
    \cup {failable_into(w).v :
            w \in {x \in (MAX - MaxSmall)..MAX : failable_into(x).kind = "Some"}}

(* ----------------------------- actions --------------------------------- *)

Call(op, form, a, b, r, ovf) ==
  [op |-> op, form |-> form, a |-> a, b |-> b, kind |-> r.kind, v |-> r.v,
   ovf |-> ovf]

Running == status = "running" /\ steps < MaxSteps

\* A call that returns a U12: it becomes the live value.
Produce(op, form, a, b, n, ovf) ==
  /\ acc' = n
  /\ last' = Call(op, form, a, b, Value(n), ovf)
  /\ steps' = steps + 1
  /\ status' = status

\* A call that returns an Option<U12>.
ProduceOption(op, form, a, b, r, ovf) ==
  /\ acc' = IF r.kind = "Some" THEN r.v ELSE acc
  /\ last' = Call(op, form, a, b, r, ovf)
  /\ steps' = steps + 1
  /\ status' = status

\* A call that returns a U12 or panics.
ProduceOrPanic(op, form, a, b, r, ovf) ==
  /\ acc' = IF r.kind = "Value" THEN r.v ELSE acc
  /\ last' = Call(op, form, a, b, r, ovf)
  /\ steps' = steps + 1
  /\ status' = IF r.kind = "Panic" THEN "aborted" ELSE status

\* A call that inspects the live value and returns a u32.
Inspect(op, r) ==
  /\ acc' = acc
  /\ last' = Call(op, "-", acc, 0, r, FALSE)
  /\ steps' = steps + 1
  /\ status' = IF r.kind = "Underflow" THEN "aborted" ELSE status

Init ==
  /\ acc = default
  /\ last = Call("default", "-", 0, 0, Value(default), FALSE)
  /\ steps = 0
  /\ status = "running"

Default == Running /\ Produce("default", "-", 0, 0, default, FALSE)

MinValue == Running /\ Produce("min_value", "-", 0, 0, min_value, FALSE)

MaxValue == Running /\ Produce("max_value", "-", 0, 0, max_value, FALSE)

FromU8 ==
  /\ Running
  /\ \E small \in U8Inputs : Produce("from_u8", "-", small, 0, from_u8(small), FALSE)

FromU12 ==
  /\ Running
  /\ \E ty \in WideTypes :
       /\ acc' = acc
       /\ last' = Call("from_u12", ty, acc, 0, [kind |-> "Wide", v |-> from_u12(acc)], FALSE)
       /\ steps' = steps + 1
       /\ status' = status

FailableInto ==
  /\ Running
  /\ \E ty \in WideTypes : \E w \in WideInputs(ty) :
       ProduceOption("failable_into", ty, w, 0, failable_into(w), FALSE)

UncheckedInto ==
  /\ Running
  /\ \E ty \in WideTypes : \E w \in WideInputs(ty) :
       ProduceOrPanic("unchecked_into", ty, w, 0, unchecked_into(w), FALSE)

CountOnes == Running /\ Inspect("count_ones", count_ones(acc))

CountZeros == Running /\ Inspect("count_zeros", count_zeros(acc))

LeadingZeros == Running /\ Inspect("leading_zeros", leading_zeros(acc))

TrailingZeros == Running /\ Inspect("trailing_zeros", trailing_zeros(acc))

CheckedAdd ==
  /\ Running
  /\ \E other \in Operands :
       ProduceOption("checked_add", "-", acc, other, checked_add(acc, other),
                     u16_add(acc, other).overflow)

SaturatingAdd ==
  /\ Running
  /\ \E other \in Operands :
       Produce("saturating_add", "-", acc, other, saturating_add(acc, other),
               u16_add(acc, other).overflow)

WrappingAdd ==
  /\ Running
  /\ \E other \in Operands :
       Produce("wrapping_add", "-", acc, other, wrapping_add(acc, other),
               u16_add(acc, other).overflow)

CheckedSub ==
  /\ Running
  /\ \E other \in Operands :
       ProduceOption("checked_sub", "-", acc, other, checked_sub(acc, other), FALSE)

SaturatingSub ==
  /\ Running
  /\ \E other \in Operands :
       Produce("saturating_sub", "-", acc, other, saturating_sub(acc, other), FALSE)

WrappingSub ==
  /\ Running
  /\ \E other \in Operands :
       Produce("wrapping_sub", "-", acc, other, wrapping_sub(acc, other), FALSE)

\* All four operand combinations dereference and call the value impl.
Add ==
  /\ Running
  /\ \E form \in Forms : \E other \in Operands :
       ProduceOrPanic("add", form, acc, other, add(acc, other),
                      u16_add(acc, other).overflow)

Sub ==
  /\ Running
  /\ \E form \in Forms : \E other \in Operands :
       ProduceOrPanic("sub", form, acc, other, sub(acc, other), FALSE)

Next ==
  \/ Default
  \/ MinValue
  \/ MaxValue
  \/ FromU8
  \/ FromU12
  \/ FailableInto
  \/ UncheckedInto
  \/ CountOnes
  \/ CountZeros
  \/ LeadingZeros
  \/ TrailingZeros
  \/ CheckedAdd
  \/ SaturatingAdd
  \/ WrappingAdd
  \/ CheckedSub
  \/ SaturatingSub
  \/ WrappingSub
  \/ Add
  \/ Sub

Spec == Init /\ [][Next]_vars

(***************************************************************************)
(* Bit inspection over every U12: the live value is any of the 4096 values *)
(* (each is the result of failable_into on the equal u16), and only the    *)
(* four inspection methods are called on it.                               *)
(***************************************************************************)
InitBits ==
  /\ acc \in {failable_into(w).v : w \in MIN..MAX}
  /\ last = Call("failable_into", "u16", acc, 0, Some(acc), FALSE)
  /\ steps = 0
  /\ status = "running"

NextBits ==
  \/ CountOnes
  \/ CountZeros
  \/ LeadingZeros
  \/ TrailingZeros

SpecBits == InitBits /\ [][NextBits]_vars

(* ----------------------------- properties ------------------------------ *)

IsU12(n) == n \in 0..4095 /\ u16_and(n, 61440) = 0

\* C1: every U12 produced by a constructor or by an arithmetic operation
\* that returns one has its stored value in [0, 4095]: the top four bits
\* of the backing u16 are zero.
C1_RangeInvariant ==
  /\ IsU12(acc)
  /\ (last.kind \in {"Some", "Value"}) => IsU12(last.v)

C1_Witness ==
  /\ last.op = "wrapping_add"
  /\ last.a + last.b > 4095
  /\ steps = MaxSteps

\* C2: trailing_zeros of the zero U12 is 12, of a non-zero U12 it is the
\* index of the lowest set bit, so the result is always in 0..12.
C2_TrailingZerosWithinField ==
  (last.op = "trailing_zeros") =>
    /\ last.kind = "Count"
    /\ last.v \in 0..12
    /\ (last.a = 0) => (last.v = 12)
    /\ (last.a # 0) =>
         /\ Bit(last.a, last.v) = 1
         /\ \A j \in 0..(last.v - 1) : Bit(last.a, j) = 0

\* C3: failable_into of a u16, u32, u64 or usize returns Some of the equal
\* U12 exactly when the value is at most 4095, and None for every larger
\* value, whatever its low bits are.
C3_FailableIntoNeverTruncates ==
  (last.op = "failable_into") =>
    /\ last.kind \in {"Some", "None"}
    /\ (last.kind = "Some") <=> (last.a <= 4095)
    /\ (last.kind = "Some") => (last.v = last.a /\ acc = last.a)
    /\ (last.a >= 4096) => (last.kind = "None")

C3_Witness ==
  /\ last.op = "failable_into"
  /\ last.form = "u32"
  /\ last.a = 65536 + 5
  /\ last.kind = "None"

\* C4: checked_add returns Some exactly when the exact sum is at most 4095,
\* the value inside is the exact sum, and the u16 sum never overflows.
C4_CheckedAddExact ==
  (last.op = "checked_add") =>
    /\ last.kind \in {"Some", "None"}
    /\ (last.kind = "Some") <=> (last.a + last.b <= 4095)
    /\ (last.kind = "Some") => (last.v = last.a + last.b)
    /\ ~last.ovf

C4_Witness ==
  /\ last.op = "checked_add"
  /\ last.a = 4095
  /\ last.b = 1
  /\ last.kind = "None"

\* C5: checked_sub returns Some exactly when a >= b, the value inside is
\* a - b, and it returns None when a < b.
C5_CheckedSubExact ==
  (last.op = "checked_sub") =>
    /\ last.kind \in {"Some", "None"}
    /\ (last.kind = "Some") <=> (last.a >= last.b)
    /\ (last.kind = "Some") => (last.v = last.a - last.b)

C5_Witness ==
  /\ last.op = "checked_sub"
  /\ last.a < last.b
  /\ last.kind = "None"

\* C6: wrapping_sub is (a - b) mod 4096, the residue in [0, 4095].
C6_WrappingSubMod4096 ==
  (last.op = "wrapping_sub") =>
    /\ last.kind = "Value"
    /\ last.v \in 0..4095
    /\ \E k \in 0..1 : last.v = last.a - last.b + k * 4096

C6_Witness ==
  /\ last.op = "wrapping_sub"
  /\ last.a = 0
  /\ last.b = 5
  /\ last.v = 4091

\* C7: wrapping_add is (a + b) mod 4096 and never fails or panics.
C7_WrappingAddMod4096 ==
  (last.op = "wrapping_add") =>
    /\ last.kind = "Value"
    /\ last.v \in 0..4095
    /\ \E k \in 0..1 : last.v = last.a + last.b - k * 4096
    /\ ~last.ovf
    /\ status = "running"

C7_Witness ==
  /\ last.op = "wrapping_add"
  /\ last.a = 4095
  /\ last.b = 3
  /\ last.v = 2

\* C8: saturating_add is the value inside checked_add when that is Some and
\* max_value() when it is None; it never signals failure.
C8_SaturatingAddRefinesChecked ==
  (last.op = "saturating_add") =>
    /\ last.kind = "Value"
    /\ status = "running"
    /\ LET c == checked_add(last.a, last.b)
       IN  last.v = IF c.kind = "Some" THEN c.v ELSE 4095

C8_Witness ==
  /\ last.op = "saturating_add"
  /\ last.a = 4095
  /\ last.b = 1
  /\ last.v = 4095

\* C9: for each operand combination, + panics exactly when checked_add is
\* None and otherwise returns the value inside it, and - does the same with
\* checked_sub; no operator form returns a wrapped or clamped result.
C9_OperatorsPanicOrChecked ==
  /\ (last.op = "add") =>
       LET c == checked_add(last.a, last.b)
       IN  /\ (last.kind = "Panic") <=> (c.kind = "None")
           /\ (last.kind # "Panic") => (last.kind = "Value" /\ last.v = c.v)
           /\ (last.kind = "Panic") <=> (status = "aborted")
  /\ (last.op = "sub") =>
       LET c == checked_sub(last.a, last.b)
       IN  /\ (last.kind = "Panic") <=> (c.kind = "None")
           /\ (last.kind # "Panic") => (last.kind = "Value" /\ last.v = c.v)
           /\ (last.kind = "Panic") <=> (status = "aborted")

C9_Witness ==
  /\ last.op = "add"
  /\ last.form = "ref_ref"
  /\ last.a = 4095
  /\ last.b = 1
  /\ last.kind = "Panic"
  /\ status = "aborted"

\* C10: count_ones(x) + count_zeros(x) = 12 for every U12 x, and the
\* subtraction of 4 from the native zero count never underflows.
C10_OnesPlusZerosIsTwelve ==
  (last.op = "count_zeros") =>
    /\ last.kind = "Count"
    /\ count_ones(last.a).v + last.v = 12
    /\ status = "running"

C10_Witness ==
  /\ last.op = "count_zeros"
  /\ last.a = 4095
  /\ last.v = 0

====
